---- MODULE Spec2Model ----
(***************************************************************************)
(* Model of the implicit-free-list allocator of src/mm.c (boundary tags,   *)
(* next-fit search, eager coalescing, in-place realloc).                   *)
(*                                                                         *)
(* Machine integers.  A uint32_t is held as the integer of the same bit    *)
(* pattern read as two's complement (the values 2^31 .. 2^32-1 are held as *)
(* -2^31 .. -1), because TLC's integers end at 2^31-1.  Arithmetic       *)
(* on them wraps exactly as 32-bit arithmetic does, and comparisons are    *)
(* the unsigned ones.  A pointer or a size_t is a pair <<hi, lo>> of two   *)
(* such halves; on the 32-bit build the high half is always 0.             *)
(***************************************************************************)
EXTENDS Integers, FiniteSets, Sequences, TLC

\* ------------------------------------------------------------------ constants
WSIZE == 4
DSIZE == 8
CHUNKSIZE == 4096
OVERHEAD == 8

\* ------------------------------------------------------------------ bounds
\* Public calls (after mm_init) in one run.
MaxOps == 4
\* Allocations the client holds at one time.
MaxLive == 3
\* The arena provider grants 16 + MaxChunks * CHUNKSIZE bytes, then refuses.
MaxChunks == 2
\* A client store writes at most this many bytes from the start of a payload.
MaxStore == 16
\* Client stores in one run.
MaxStores == 1

\* Request sizes the client passes to mm_malloc and mm_realloc.
MallocSizes == {8, 16, 4088}
ReallocSizes == {0, 8, 16, 17, 4088}
\* Words the client stores into its payloads.
ClientWords == {0, 17, 24}
\* Content of a word that nothing has written yet.
GarbageWords == {0, 1}
\* sizeof(void *) * 8 of the build.
PtrWidths == {32, 64}

\* ------------------------------------------------------------------ 32-bit words
MaxS32 == (2^30 - 1) + 2^30
MinS32 == -MaxS32 - 1

\* a + b modulo 2^32
Add32(a, b) ==
  IF a >= 0 /\ b >= 0 /\ a > MaxS32 - b THEN (a + MinS32) + (b + MinS32)
  ELSE IF a < 0 /\ b < 0 /\ a < MinS32 - b THEN (a - MinS32) + (b - MinS32)
  ELSE a + b

\* -a modulo 2^32
Neg32(a) == IF a = MinS32 THEN MinS32 ELSE -a

\* a - b modulo 2^32
Sub32(a, b) == Add32(a, Neg32(b))

\* unsigned a < b, a <= b
ULt(a, b) == IF (a >= 0) = (b >= 0) THEN a < b ELSE a >= 0
ULe(a, b) == a = b \/ ULt(a, b)

\* unsigned a / 8 and a / 4
UDiv8(a) == IF a >= 0 THEN a \div 8 ELSE (a \div 8) + 2^29
UDiv4(a) == IF a >= 0 THEN a \div 4 ELSE (a \div 4) + 2^30

\* k * q modulo 2^32, for k = 8 and k = 4, q unsigned
UMul8(q) ==
  LET r == q % (2^29) IN IF r >= 2^28 THEN 8 * (r - 2^29) ELSE 8 * r
UMul4(q) ==
  LET r == q % (2^30) IN IF r >= 2^29 THEN 4 * (r - 2^30) ELSE 4 * r

\* ------------------------------------------------------------------ pointers, size_t
NULL == <<0, 0>>

\* A uint32_t (or a non-negative int) converted to a pointer-wide unsigned.
ZExt(v) == <<0, v>>
\* A pointer-wide value converted to uint32_t or int.
Trunc(x) == x[2]

\* Both halves are small enough for plain arithmetic to be exact.
Plain(x, y) == x[1] = 0 /\ y[1] = 0 /\ x[2] >= 0 /\ y[2] >= 0 /\ x[2] < 2^30 /\ y[2] < 2^30

\* x + y and x - y at the build's pointer width
WAddCarry(bits, x, y, lo) ==
  IF bits = 64
  THEN <<Add32(Add32(x[1], y[1]), IF ULt(lo, x[2]) THEN 1 ELSE 0), lo>>
  ELSE <<0, lo>>

WAdd(bits, x, y) ==
  IF Plain(x, y) THEN <<0, x[2] + y[2]>> ELSE WAddCarry(bits, x, y, Add32(x[2], y[2]))

WSubBorrow(bits, x, y, lo) ==
  IF bits = 64
  THEN <<Sub32(Sub32(x[1], y[1]), IF ULt(x[2], y[2]) THEN 1 ELSE 0), lo>>
  ELSE <<0, lo>>

WSub(bits, x, y) ==
  IF Plain(x, y) /\ y[2] <= x[2] THEN <<0, x[2] - y[2]>>
  ELSE WSubBorrow(bits, x, y, Sub32(x[2], y[2]))

\* unsigned x < y, x <= y
WLt(x, y) == IF x[1] = y[1] THEN ULt(x[2], y[2]) ELSE ULt(x[1], y[1])
WLe(x, y) == x = y \/ WLt(x, y)

\* ------------------------------------------------------------------ the arena
\* First byte of the arena (8-byte aligned, as malloc returns it).
mem_start_brk == 2^20
\* Bytes the provider grants in all.
MAX_HEAP == 4 * WSIZE + MaxChunks * CHUNKSIZE

VARIABLES
  mem,               \* word address |-> the word stored there (written words only)
  mem_brk,           \* first byte past the arena
  heap_listp,        \* static char *heap_listp
  next_fit_pointer,  \* static char *next_fit_pointer
  ptrBits,           \* pointer width of the build
  live,              \* the client's allocations: slot |-> [ptr, req]
  status,            \* "uninit", "ok", "failed", "exited", "crashed", "hung"
  last,              \* the last call and what it returned
  nops,              \* public calls made after mm_init
  nstores            \* client stores made

vars == <<mem, mem_brk, heap_listp, next_fit_pointer, ptrBits, live, status, last,
          nops, nstores>>

\* The state a call works on: the arena, the two globals, the build, the
\* content g of the words nothing has written, and what happened during the
\* call: ub (an access outside the arena, or an overlapping memcpy), indet (a
\* load of a word nothing has written), hung (a loop that never exits), exited
\* (exit(1)), refused (mem_sbrk failed), extended (mem_sbrk succeeded).
Heap(g) ==
  [mem |-> mem, brk |-> mem_brk, hlp |-> heap_listp, nfp |-> next_fit_pointer,
   bits |-> ptrBits, g |-> g,
   ub |-> FALSE, indet |-> FALSE, hung |-> FALSE, exited |-> FALSE,
   refused |-> FALSE, extended |-> FALSE]

InArena(h, p) == p[1] = 0 /\ p[2] >= mem_start_brk /\ p[2] < h.brk

\* Records the loads of the words at the addresses of S.
Load(h, S) ==
  [h EXCEPT !.ub = @ \/ \E p \in S : ~InArena(h, p),
            !.indet = @ \/ \E p \in S : p \notin DOMAIN h.mem]

\* mem_sbrk of memlib: the old break, or failure when incr is negative or the
\* arena would pass its limit.
mem_sbrk(h, incr) ==
  IF incr < 0 \/ incr > (mem_start_brk + MAX_HEAP) - h.brk
  THEN [h |-> [h EXCEPT !.refused = TRUE], ok |-> FALSE, old |-> NULL]
  ELSE [h |-> [h EXCEPT !.brk = h.brk + incr, !.extended = TRUE], ok |-> TRUE,
        old |-> <<0, h.brk>>]

\* ------------------------------------------------------------------ block metadata
MAX(x, y) == IF x > y THEN x ELSE y

PACK(size, alloc) == IF size % 2 = 1 THEN size ELSE size + (alloc % 2)

GET(h, p) == IF p \in DOMAIN h.mem THEN h.mem[p] ELSE h.g

PUT(h, p, val) ==
  [h EXCEPT !.mem = (p :> val) @@ @, !.ub = @ \/ ~InArena(h, p)]

SizeBits(w) == w - (w % 8)

GET_SIZE(h, p) == SizeBits(GET(h, p))

GET_ALLOC(h, p) == GET(h, p) % 2

HEADER(h, bp) == WSub(h.bits, bp, ZExt(WSIZE))

FOOTER(h, bp) ==
  WSub(h.bits, WAdd(h.bits, bp, ZExt(GET_SIZE(h, HEADER(h, bp)))), ZExt(DSIZE))

\* The second store of SET_BLOCK_DATA: FOOTER reads the header just written.
PutFooter(h, bp, boundaryData) == PUT(h, FOOTER(h, bp), boundaryData)

SET_BLOCK_DATA(h, bp, size, alloc) ==
  PutFooter(PUT(h, HEADER(h, bp), PACK(size, alloc)), bp, PACK(size, alloc))

NEXT_BLOCK(h, bp) ==
  WAdd(h.bits, bp, ZExt(GET_SIZE(h, WSub(h.bits, bp, ZExt(WSIZE)))))

PREVIOUS_BLOCK(h, bp) ==
  WSub(h.bits, bp, ZExt(GET_SIZE(h, WSub(h.bits, bp, ZExt(DSIZE)))))

\* ------------------------------------------------------------------ coalesce
\* Lines 262-266: the cursor is moved to bp when it lies inside the merged block.
coalesce_cursor(h, bp) ==
  [h |-> IF WLt(HEADER(h, bp), h.nfp) /\ WLt(h.nfp, FOOTER(h, bp))
         THEN [h EXCEPT !.nfp = bp]
         ELSE h,
   bp |-> bp]

\* Lines 240-261: the four cases on the two neighbours' allocated bits.
coalesce_cases(h, bp, prev, next, previousAllocation, nextAllocation, size) ==
  IF previousAllocation # 0 /\ nextAllocation # 0
  THEN [h |-> h, bp |-> bp]
  ELSE IF previousAllocation # 0 /\ nextAllocation = 0
  THEN coalesce_cursor(
         SET_BLOCK_DATA(h, bp,
           Trunc(WAdd(h.bits, size, ZExt(GET_SIZE(h, HEADER(h, next))))), 0),
         bp)
  ELSE IF previousAllocation = 0 /\ nextAllocation # 0
  THEN coalesce_cursor(
         SET_BLOCK_DATA(h, prev,
           Trunc(WAdd(h.bits, size, ZExt(GET_SIZE(h, HEADER(h, prev))))), 0),
         prev)
  ELSE coalesce_cursor(
         SET_BLOCK_DATA(h, prev,
           Trunc(WAdd(h.bits,
                      WAdd(h.bits, size, ZExt(GET_SIZE(h, HEADER(h, next)))),
                      ZExt(GET_SIZE(h, HEADER(h, prev))))), 0),
         prev)

\* Lines 236-238: the loads of the neighbours' tags.
coalesce_tags(h, bp, prev, next, prevFooter) ==
  coalesce_cases(
    Load(h, {WSub(h.bits, bp, ZExt(DSIZE)), HEADER(h, prev), prevFooter,
             HEADER(h, bp), HEADER(h, next)}),
    bp, prev, next,
    GET_ALLOC(h, prevFooter), GET_ALLOC(h, HEADER(h, next)),
    ZExt(GET_SIZE(h, HEADER(h, bp))))

coalesce_neighbours(h, bp, prev, next) ==
  coalesce_tags(h, bp, prev, next, FOOTER(h, prev))

\* A coalesce that merges nothing.
coalesce_none(h, bp) == [h |-> h, bp |-> bp]

\* coalesce - boundary tag coalescing; [h, bp]: the heap after it and the
\* pointer it returns.
coalesce(h, bp) ==
  coalesce_neighbours(h, bp, PREVIOUS_BLOCK(h, bp), NEXT_BLOCK(h, bp))

\* ------------------------------------------------------------------ extend_heap
\* Line 189: the new epilogue header, then line 192.
extend_heap_epilogue(h, bp) ==
  coalesce(PUT(h, HEADER(h, NEXT_BLOCK(h, bp)), PACK(0, 1)), bp)

\* Lines 184-188, brk being what mem_sbrk(size) returned.
extend_heap_block(brk, size) ==
  IF ~brk.ok THEN [h |-> brk.h, bp |-> NULL]
  ELSE extend_heap_epilogue(SET_BLOCK_DATA(brk.h, brk.old, Trunc(size), 0), brk.old)

extend_heap_size(h, size) == extend_heap_block(mem_sbrk(h, Trunc(size)), size)

\* extend_heap - [h, bp]; bp = NULL when mem_sbrk refuses.
extend_heap(h, words) ==
  extend_heap_size(h,
    ZExt(IF words % 2 = 1 THEN UMul4(Add32(words, 1)) ELSE UMul4(words)))

\* ------------------------------------------------------------------ mm_init
\* mm_init without the alignment padding word: the prologue starts at the
\* first word of the arena.
mm_init_heap_unpadded(brk, bits) ==
  extend_heap(
    [PUT(PUT(PUT(PUT(brk.h, brk.old, PACK(OVERHEAD, 1)),
                 WAdd(bits, brk.old, ZExt(WSIZE)), PACK(OVERHEAD, 1)),
             WAdd(bits, brk.old, ZExt(DSIZE)), PACK(0, 1)),
         WAdd(bits, brk.old, ZExt(WSIZE + DSIZE)), 0)
       EXCEPT !.hlp = WAdd(bits, brk.old, ZExt(WSIZE)),
              !.nfp = WAdd(bits, brk.old, ZExt(WSIZE))],
    CHUNKSIZE \div WSIZE)

\* Lines 160-171, brk being what mem_sbrk(4 * WSIZE) returned.
mm_init_heap(brk, bits) ==
  extend_heap(
    [PUT(PUT(PUT(PUT(brk.h, brk.old, 0),
                 WAdd(bits, brk.old, ZExt(WSIZE)), PACK(OVERHEAD, 1)),
             WAdd(bits, brk.old, ZExt(DSIZE)), PACK(OVERHEAD, 1)),
         WAdd(bits, brk.old, ZExt(WSIZE + DSIZE)), PACK(0, 1))
       EXCEPT !.hlp = WAdd(bits, brk.old, ZExt(DSIZE)),
              !.nfp = WAdd(bits, brk.old, ZExt(DSIZE))],
    CHUNKSIZE \div WSIZE)

mm_init_result(e) == [h |-> e.h, ret |-> IF e.bp = NULL THEN -1 ELSE 0]

mm_init_brk(brk, bits) ==
  IF ~brk.ok
  THEN [h |-> [brk.h EXCEPT !.hlp = WSub(bits, NULL, ZExt(1))], ret |-> -1]
  ELSE mm_init_result(mm_init_heap(brk, bits))

\* mm_init - [h, ret]
mm_init(h) == mm_init_brk(mem_sbrk(h, 4 * WSIZE), h.bits)

\* ------------------------------------------------------------------ find_fit
\* The do-while loop of find_fit at block bp; seen holds the blocks the loop
\* has been at.  Memory and the cursor do not change while it runs, so coming
\* to a block a second time means the loop never ends.
RECURSIVE find_fit_loop(_, _, _, _)
RECURSIVE find_fit_while(_, _, _, _)
RECURSIVE find_fit_next(_, _, _, _)

\* Line 216: the loop condition.
find_fit_while(h, asize, bp, seen) ==
  IF bp = h.nfp THEN [h |-> h, bp |-> NULL]
  ELSE IF bp \in seen THEN [h |-> [h EXCEPT !.hung = TRUE], bp |-> NULL]
  ELSE find_fit_loop(h, asize, bp, seen \cup {bp})

\* A search that gives up at the epilogue instead of going back to heap_listp.
find_fit_next_nowrap(h, asize, nb, seen) ==
  IF GET_SIZE(h, HEADER(h, nb)) = 0
  THEN [h |-> Load(h, {HEADER(h, nb)}), bp |-> NULL]
  ELSE find_fit_while(Load(h, {HEADER(h, nb)}), asize, nb, seen)

\* Lines 212-215: back to heap_listp at a header of size 0.
find_fit_next(h, asize, nb, seen) ==
  find_fit_while(Load(h, {HEADER(h, nb)}), asize,
                 IF GET_SIZE(h, HEADER(h, nb)) = 0 THEN h.hlp ELSE nb, seen)

\* Lines 206-211.
find_fit_loop(h, asize, bp, seen) ==
  IF GET_ALLOC(h, HEADER(h, bp)) = 0 /\ ULe(asize, GET_SIZE(h, HEADER(h, bp)))
  THEN [h |-> [Load(h, {HEADER(h, bp)}) EXCEPT !.nfp = bp], bp |-> bp]
  ELSE find_fit_next(Load(h, {HEADER(h, bp)}), asize, NEXT_BLOCK(h, bp), seen)

\* find_fit - [h, bp]; bp = NULL when no block fits.
find_fit(h, asize) == find_fit_loop(h, asize, h.nfp, {h.nfp})

\* ------------------------------------------------------------------ place
\* Lines 317-319: the remainder becomes a free block and is coalesced.
place_remainder(h, nb, rest) == coalesce(SET_BLOCK_DATA(h, nb, rest, 0), nb).h

place_next(h, bp, rest) == place_remainder(h, NEXT_BLOCK(h, bp), rest)

\* Lines 314-324, csize and csize - asize being size_t.
place_split(h, bp, asize, csize, rest) ==
  IF WLe(ZExt(DSIZE + OVERHEAD), rest)
  THEN place_next(SET_BLOCK_DATA(h, bp, asize, 1), bp, Trunc(rest))
  ELSE SET_BLOCK_DATA(h, bp, Trunc(csize), 1)

place_csize(h, bp, asize, csize) ==
  place_split(h, bp, asize, csize, WSub(h.bits, csize, ZExt(asize)))

\* place - the heap after it.
place(h, bp, asize) ==
  place_csize(Load(h, {HEADER(h, bp)}), bp, asize, ZExt(GET_SIZE(h, HEADER(h, bp))))

\* ------------------------------------------------------------------ mm_malloc
\* The adjusted block size of mm_malloc and mm_realloc (uint32_t arithmetic).
AdjustedSize(size) ==
  IF ULe(size, DSIZE) THEN DSIZE + OVERHEAD
  ELSE UMul8(UDiv8(Add32(Add32(size, OVERHEAD), DSIZE - 1)))

\* mm_malloc that sets the cursor back to heap_listp when extend_heap fails.
mm_malloc_extended_reset(ext, asize) ==
  IF ext.bp = NULL THEN [h |-> [ext.h EXCEPT !.nfp = ext.h.hlp], ret |-> NULL]
  ELSE [h |-> place(ext.h, ext.bp, asize), ret |-> ext.bp]

\* Lines 298-300, ext being what extend_heap returned.
mm_malloc_extended(ext, asize) ==
  IF ext.bp = NULL THEN [h |-> ext.h, ret |-> NULL]
  ELSE [h |-> place(ext.h, ext.bp, asize), ret |-> ext.bp]

\* Lines 289-297, fit being what find_fit returned.
mm_malloc_fit(fit, asize) ==
  IF fit.h.hung THEN [h |-> fit.h, ret |-> NULL]
  ELSE IF fit.bp # NULL THEN [h |-> place(fit.h, fit.bp, asize), ret |-> fit.bp]
  ELSE mm_malloc_extended(
         extend_heap(fit.h, UDiv4(MAX(asize, CHUNKSIZE))), asize)

mm_malloc_asize(h, asize) == mm_malloc_fit(find_fit(h, asize), asize)

\* mm_malloc - [h, ret]; ret = NULL for a request of 0 bytes or when the arena
\* cannot be extended.
mm_malloc(h, size) ==
  IF size = 0 THEN [h |-> h, ret |-> NULL]
  ELSE mm_malloc_asize(h, AdjustedSize(size))

\* ------------------------------------------------------------------ mm_free
\* mm_free - the heap after it.
mm_free(h, bp) ==
  coalesce(SET_BLOCK_DATA(Load(h, {HEADER(h, bp)}), bp, GET_SIZE(h, HEADER(h, bp)), 0),
           bp).h

\* ------------------------------------------------------------------ mm_realloc
\* The words of [base, base + nbytes) among those of S.
WordsIn(h, S, base, nbytes) ==
  {a \in S : WLe(base, a) /\ WLt(WSub(h.bits, a, base), ZExt(nbytes))}

\* The copy itself: the written source words go to the destination; a
\* destination word whose source word nothing has written becomes unwritten.
memcpy_words(h, dst, src, from, stale) ==
  [h EXCEPT !.mem =
     [d \in {WAdd(h.bits, dst, WSub(h.bits, a, src)) : a \in from} |->
        h.mem[WAdd(h.bits, src, WSub(h.bits, d, dst))]]
     @@ [a \in (DOMAIN h.mem) \ stale |-> h.mem[a]]]

memcpy_bytes(h, dst, src, nbytes) ==
  memcpy_words(
    [h EXCEPT !.ub = \/ @
                     \/ ~InArena(h, src) \/ ~InArena(h, dst)
                     \/ ~InArena(h, WAdd(h.bits, src, ZExt(Sub32(nbytes, WSIZE))))
                     \/ ~InArena(h, WAdd(h.bits, dst, ZExt(Sub32(nbytes, WSIZE))))
                     \/ /\ dst # src
                        /\ \/ WLt(WSub(h.bits, dst, src), ZExt(nbytes))
                           \/ WLt(WSub(h.bits, src, dst), ZExt(nbytes))],
    dst, src,
    WordsIn(h, DOMAIN h.mem, src, nbytes), WordsIn(h, DOMAIN h.mem, dst, nbytes))

\* memcpy(dst, src, n), word by word: a last partial word is copied whole.
\* Copying between overlapping ranges, or past the arena, is undefined.
memcpy(h, dst, src, n) ==
  IF n = 0 THEN h
  ELSE memcpy_bytes(h, dst, src, IF n % 4 = 0 THEN n ELSE Add32(n, 4 - (n % 4)))

\* Lines 365-372, m being what mm_malloc(size) returned.
mm_realloc_copy(m, ptr, copySize) ==
  IF m.h.hung THEN [h |-> m.h, ret |-> NULL, path |-> "move"]
  ELSE IF m.ret = NULL
  THEN [h |-> [m.h EXCEPT !.exited = TRUE], ret |-> NULL, path |-> "move"]
  ELSE [h |-> mm_free(memcpy(m.h, m.ret, ptr, copySize), ptr), ret |-> m.ret,
        path |-> "move"]

\* Line 364.
mm_realloc_move(h, ptr, size, copySize) ==
  mm_realloc_copy(mm_malloc(h, size), ptr, copySize)

\* Lines 358-362, nb being NEXT_BLOCK(ptr).
mm_realloc_grow(h, ptr, size, copySize, asize, nb) ==
  IF GET_ALLOC(h, HEADER(h, nb)) = 0
     /\ ULe(asize, Add32(GET_SIZE(h, HEADER(h, nb)), copySize))
  THEN [h |-> place(Load(h, {HEADER(h, nb)}), ptr, asize), ret |-> ptr, path |-> "grow"]
  ELSE mm_realloc_move(Load(h, {HEADER(h, nb)}), ptr, size, copySize)

\* Lines 350-351: the rest of the block becomes a free block and is coalesced.
mm_realloc_rest(h, ptr) == coalesce(h, NEXT_BLOCK(h, ptr)).h

mm_realloc_shrink(h, ptr, rest) ==
  mm_realloc_rest(SET_BLOCK_DATA(h, NEXT_BLOCK(h, ptr), rest, 0), ptr)

\* Lines 336-362.
mm_realloc_cases(h, ptr, size, copySize, asize) ==
  IF size = copySize THEN [h |-> h, ret |-> ptr, path |-> "same"]
  ELSE IF ULt(asize, copySize)
  THEN [h |-> mm_realloc_shrink(SET_BLOCK_DATA(h, ptr, asize, 1), ptr,
                                Sub32(copySize, asize)),
        ret |-> ptr, path |-> "shrink"]
  ELSE IF ULt(size, copySize) THEN mm_realloc_move(h, ptr, size, size)
  ELSE mm_realloc_grow(h, ptr, size, copySize, asize, NEXT_BLOCK(h, ptr))

\* mm_realloc - [h, ret, path]; path names the branch taken: "same" (size
\* equals the block size), "shrink", "grow" (into the next free block) or
\* "move" (malloc, memcpy, free).
mm_realloc(h, ptr, size) ==
  mm_realloc_cases(Load(h, {HEADER(h, ptr)}), ptr, size,
                   GET_SIZE(h, HEADER(h, ptr)), AdjustedSize(size))

\* ------------------------------------------------------------------ the client
NoAlloc == [ptr |-> NULL, req |-> 0]
Slots == 1 .. MaxLive
LiveSlots == {i \in Slots : live[i] # NoAlloc}
FreeSlot == CHOOSE i \in Slots : live[i] = NoAlloc /\ \A j \in Slots : live[j] = NoAlloc => i <= j

NoCall == [op |-> "none", slot |-> 0, ptr |-> NULL, size |-> 0, ret |-> NULL,
           path |-> "", refused |-> FALSE, extended |-> FALSE, ub |-> FALSE]

\* The words nothing has written hold any of GarbageWords; a call that loads
\* none of them (r0, run with the first) ends the same way with every one.
FirstGarbage == CHOOSE g \in GarbageWords : \A k \in GarbageWords : g <= k
OtherGarbage == GarbageWords \ {FirstGarbage}
WithGarbage(r0, others) == IF r0.h.indet THEN {r0} \cup others ELSE {r0}

\* How a call can end: in a loop that never exits, in exit(1), and after
\* undefined behaviour either in a crash or by carrying on.
Outcomes(h) ==
  IF h.hung THEN {"hung"}
  ELSE IF h.exited THEN {"exited"}
  ELSE IF h.ub THEN {"ok", "crashed"}
  ELSE {"ok"}

Commit(h) ==
  /\ mem' = h.mem
  /\ mem_brk' = h.brk
  /\ heap_listp' = h.hlp
  /\ next_fit_pointer' = h.nfp
  /\ status' \in Outcomes(h)
  /\ UNCHANGED ptrBits

Call(op, slot, ptr, size, ret, path, h) ==
  [op |-> op, slot |-> slot, ptr |-> ptr, size |-> size, ret |-> ret, path |-> path,
   refused |-> h.refused, extended |-> h.extended, ub |-> h.ub]

Init ==
  /\ mem = [a \in {} |-> 0]
  /\ mem_brk = mem_start_brk
  /\ heap_listp = NULL
  /\ next_fit_pointer = NULL
  /\ ptrBits \in PtrWidths
  /\ live = [i \in Slots |-> NoAlloc]
  /\ status = "uninit"
  /\ last = NoCall
  /\ nops = 0
  /\ nstores = 0

MmInit ==
  /\ status = "uninit"
  /\ \E r \in WithGarbage(mm_init(Heap(FirstGarbage)),
                          {mm_init(Heap(g)) : g \in OtherGarbage}) :
         /\ mem' = r.h.mem
         /\ mem_brk' = r.h.brk
         /\ heap_listp' = r.h.hlp
         /\ next_fit_pointer' = r.h.nfp
         /\ status' = IF r.ret = 0 THEN "ok" ELSE "failed"
         /\ last' = Call("init", 0, NULL, 0, NULL, "", r.h)
  /\ UNCHANGED <<ptrBits, live, nops, nstores>>

MallocCall(n) ==
  /\ status = "ok"
  /\ \E i \in Slots : live[i] = NoAlloc
  /\ \E r \in WithGarbage(mm_malloc(Heap(FirstGarbage), n),
                          {mm_malloc(Heap(g), n) : g \in OtherGarbage}) :
         /\ Commit(r.h)
         /\ last' = Call("malloc", FreeSlot, NULL, n, r.ret, "", r.h)
         /\ live' = IF r.ret # NULL /\ ~r.h.hung
                    THEN [live EXCEPT ![FreeSlot] = [ptr |-> r.ret, req |-> n]]
                    ELSE live
  /\ nops' = nops + 1
  /\ UNCHANGED nstores

FreeCall(i) ==
  /\ status = "ok"
  /\ i \in LiveSlots
  /\ \E r \in WithGarbage([h |-> mm_free(Heap(FirstGarbage), live[i].ptr)],
                          {[h |-> mm_free(Heap(g), live[i].ptr)] : g \in OtherGarbage}) :
         /\ Commit(r.h)
         /\ last' = Call("free", i, live[i].ptr, 0, NULL, "", r.h)
  /\ live' = [live EXCEPT ![i] = NoAlloc]
  /\ nops' = nops + 1
  /\ UNCHANGED nstores

ReallocCall(i, n) ==
  /\ status = "ok"
  /\ i \in LiveSlots
  /\ \E r \in WithGarbage(mm_realloc(Heap(FirstGarbage), live[i].ptr, n),
                          {mm_realloc(Heap(g), live[i].ptr, n) : g \in OtherGarbage}) :
         /\ Commit(r.h)
         /\ last' = Call("realloc", i, live[i].ptr, n, r.ret, r.path, r.h)
         /\ live' = IF r.h.hung \/ r.h.exited THEN live
                    ELSE [live EXCEPT ![i] = [ptr |-> r.ret, req |-> n]]
  /\ nops' = nops + 1
  /\ UNCHANGED nstores

\* The client makes at most MaxOps calls.
Malloc(n) == nops < MaxOps /\ MallocCall(n)

Free(i) == nops < MaxOps /\ FreeCall(i)

Realloc(i, n) == nops < MaxOps /\ ReallocCall(i, n)

\* The client fills the allocation it has just been handed: the word v over
\* its first bytes, as many as it asked for and at most MaxStore.
StoreWords(i) ==
  LET n == IF live[i].req < MaxStore THEN live[i].req ELSE MaxStore
  IN {WAdd(ptrBits, live[i].ptr, ZExt(WSIZE * k)) : k \in 0 .. ((n + WSIZE - 1) \div WSIZE) - 1}

Store(i, v) ==
  /\ status = "ok"
  /\ nstores < MaxStores
  /\ i \in LiveSlots
  /\ last.op \in {"malloc", "realloc"}
  /\ last.slot = i
  /\ mem' = [a \in StoreWords(i) |-> v] @@ mem
  /\ last' = [NoCall EXCEPT !.op = "store", !.slot = i, !.ptr = live[i].ptr]
  /\ nstores' = nstores + 1
  /\ UNCHANGED <<mem_brk, heap_listp, next_fit_pointer, ptrBits, live, status, nops>>

Next ==
  \/ MmInit
  \/ \E n \in MallocSizes : Malloc(n)
  \/ \E i \in Slots : Free(i)
  \/ \E i \in Slots, n \in ReallocSizes : Realloc(i, n)
  \/ \E i \in Slots, v \in ClientWords : Store(i, v)

Spec == Init /\ [][Next]_vars

\* ------------------------------------------------------------------
\* Clients that call only mm_init, mm_malloc and mm_free, at most MaxOpsMF
\* times after mm_init.
MaxOpsMF == 6

MallocMF(n) == nops < MaxOpsMF /\ MallocCall(n)

FreeMF(i) == nops < MaxOpsMF /\ FreeCall(i)

NextMF ==
  \/ MmInit
  \/ \E n \in MallocSizes : MallocMF(n)
  \/ \E i \in Slots : FreeMF(i)

SpecMF == Init /\ [][NextMF]_vars

\* ------------------------------------------------------------------
\* Clients that make up to MaxOpsDeep calls after mm_init, with fewer sizes to
\* choose from: mm_malloc of DeepMallocSizes, mm_realloc to DeepReallocSizes,
\* and mm_free; they store nothing.
MaxOpsDeep == 6

DeepMallocSizes == {8, 4088}
DeepReallocSizes == {17, 4088}

MallocDeep(n) == nops < MaxOpsDeep /\ MallocCall(n)

FreeDeep(i) == nops < MaxOpsDeep /\ FreeCall(i)

ReallocDeep(i, n) == nops < MaxOpsDeep /\ ReallocCall(i, n)

NextDeep ==
  \/ MmInit
  \/ \E n \in DeepMallocSizes : MallocDeep(n)
  \/ \E i \in Slots : FreeDeep(i)
  \/ \E i \in Slots, n \in DeepReallocSizes : ReallocDeep(i, n)

SpecDeep == Init /\ [][NextDeep]_vars

\* ------------------------------------------------------------------
\* Clients that make one call of mm_malloc after mm_init, for a size from the
\* whole range of uint32_t: small sizes, sizes around CHUNKSIZE, around 2^31
\* and up to 2^32 - 1 (as uint32_t values, so from MinS32 on and up to -1).
MaxOpsNum == 1

NumSizes ==
  (1 .. 24) \cup (4080 .. 4100) \cup {MaxS32 - k : k \in 0 .. 24}
  \cup {MinS32 + k : k \in 0 .. 8} \cup {-k : k \in 1 .. 24}

MallocNum(n) == nops < MaxOpsNum /\ MallocCall(n)

NextNum ==
  \/ MmInit
  \/ \E n \in NumSizes : MallocNum(n)

SpecNum == Init /\ [][NextNum]_vars

\* ------------------------------------------------------------------ the implicit list
\* A public call has just returned to the client.
Returned == status = "ok" /\ last.op \in {"init", "malloc", "free", "realloc"}

\* The allocator's state as it stands.
Now == Heap(FirstGarbage)

\* What the word at p holds: its value, or that nothing has written it.
Cell(h, p) == IF p \in DOMAIN h.mem THEN <<TRUE, h.mem[p]>> ELSE <<FALSE, 0>>

\* The walk of mm_checkheap: from bp by NEXT_BLOCK to a header of size 0.
\* blocks: the payload pointers passed, in order; end: "epilogue", at being
\* the pointer where the walk stopped, or why no epilogue was found: the walk
\* left the arena, loaded a word nothing has written, or came back to a block
\* it had passed.
RECURSIVE checkheap_loop(_, _, _)
checkheap_loop(h, bp, acc) ==
  IF ~InArena(h, HEADER(h, bp)) THEN [blocks |-> acc, end |-> "outside", at |-> bp]
  ELSE IF HEADER(h, bp) \notin DOMAIN h.mem
  THEN [blocks |-> acc, end |-> "unwritten", at |-> bp]
  ELSE IF GET_SIZE(h, HEADER(h, bp)) = 0
  THEN [blocks |-> acc, end |-> "epilogue", at |-> bp]
  ELSE IF \E k \in 1 .. Len(acc) : acc[k] = bp
  THEN [blocks |-> acc, end |-> "cycle", at |-> bp]
  ELSE checkheap_loop(h, NEXT_BLOCK(h, bp), Append(acc, bp))

Walk(h) == checkheap_loop(h, h.hlp, <<>>)

Range(seq) == {seq[k] : k \in 1 .. Len(seq)}

\* The payload pointers of the blocks on the walk from heap_listp.
Blocks(h) == Range(Walk(h).blocks)

\* ------------------------------------------------------------------ C1
\* The bytes of the block at bp, header to footer, lie inside the arena.
BlockInArena(h, bp) ==
  /\ Cell(h, HEADER(h, bp))[1]
  /\ ULe(OVERHEAD, GET_SIZE(h, HEADER(h, bp)))
  /\ InArena(h, HEADER(h, bp))
  /\ InArena(h, WAdd(h.bits, FOOTER(h, bp), ZExt(WSIZE - 1)))
  /\ WLe(HEADER(h, bp), FOOTER(h, bp))

Disjoint(h, bp, bq) ==
  WLt(FOOTER(h, bp), HEADER(h, bq)) \/ WLt(FOOTER(h, bq), HEADER(h, bp))

NonOverlap(h, ptrs) ==
  \A bp \in ptrs :
    /\ BlockInArena(h, bp)
    /\ \A bq \in ptrs \ {bp} : Disjoint(h, bp, bq)

\* C1: after any sequence of public calls, the blocks of any two live
\* allocations, header to footer, are disjoint and each lies inside the arena.
C1_NonOverlap == Returned => NonOverlap(Now, {live[i].ptr : i \in LiveSlots})

\* ------------------------------------------------------------------ C2
\* Payload bytes of the block at bp: its header size minus the overhead.
Capacity(h, bp) == Sub32(GET_SIZE(h, HEADER(h, bp)), OVERHEAD)

Holds(h, bp, n) ==
  /\ Cell(h, HEADER(h, bp))[1]
  /\ GET_ALLOC(h, HEADER(h, bp)) = 1
  /\ ULe(OVERHEAD, GET_SIZE(h, HEADER(h, bp)))
  /\ ULe(n, Capacity(h, bp))

\* C2: a non-null pointer returned by mm_malloc(n) or mm_realloc(p, n), n > 0,
\* is that of an allocated block whose header size minus 8 is at least n,
\* also when mm_realloc returns early because n equals the header size of p.
C2_SufficientSize ==
  (Returned /\ last.op \in {"malloc", "realloc"} /\ last.ret # NULL) =>
    Holds(Now, last.ret, last.size)

\* ------------------------------------------------------------------ C3
TagsAgree(h, blocks) ==
  \A bp \in blocks : Cell(h, FOOTER(h, bp)) = Cell(h, HEADER(h, bp))

\* C3: after every public call returns, every block on the walk from
\* heap_listp has a header word identical to its footer word.
C3_TagsAgree == Returned => TagsAgree(Now, Blocks(Now))

\* ------------------------------------------------------------------ C4
IsFree(h, bp) == Cell(h, HEADER(h, bp))[1] /\ GET_ALLOC(h, HEADER(h, bp)) = 0

NoAdjacentFree(h, blocks) ==
  \A bp \in blocks :
    NEXT_BLOCK(h, bp) \in blocks => ~(IsFree(h, bp) /\ IsFree(h, NEXT_BLOCK(h, bp)))

\* C4: after every mm_free and mm_realloc returns, no two physically adjacent
\* blocks are both marked free.
C4_NoAdjacentFree ==
  (Returned /\ last.op \in {"free", "realloc"}) => NoAdjacentFree(Now, Blocks(Now))

\* ------------------------------------------------------------------ C5
\* The byte offsets, from base, of the words written at or after base.
Offsets(h, base) ==
  {WSub(h.bits, a, base)[2] : a \in {b \in DOMAIN h.mem : WLe(base, b)}}

\* The step is a call of mm_realloc that returned a pointer.
ReallocReturns ==
  /\ nops' = nops + 1
  /\ last'.op = "realloc"
  /\ status' = "ok"
  /\ last'.ret # NULL

\* The first bytes of the payloads of p in h and of q in h2, as many as the
\* smaller of n and the payload of p, are the same.
SamePayload(h, p, h2, q, n) ==
  \A o \in Offsets(h, p) \cup Offsets(h2, q) :
    (ULt(o, n) /\ ULt(o, Capacity(h, p))) =>
      Cell(h2, WAdd(h.bits, q, ZExt(o))) = Cell(h, WAdd(h.bits, p, ZExt(o)))

\* C5: mm_realloc(p, n), n > 0, returns a pointer q whose first min(|B|, n)
\* payload bytes are those the payload B of p held before the call, on each of
\* its paths.
C5_PayloadPreserved ==
  [][ReallocReturns => SamePayload(Now, last'.ptr, Now', last'.ret, last'.size)]_vars

\* ------------------------------------------------------------------ C6
\* C6: after every public call returns, next_fit_pointer is the payload
\* pointer of a block on the walk from heap_listp (the prologue or a block of
\* header size > 0).
C6_CursorValid == Returned => next_fit_pointer \in Blocks(Now)

\* ------------------------------------------------------------------ C7
Sentinels(h) ==
  /\ h.hlp = <<0, mem_start_brk + DSIZE>>
  /\ Cell(h, HEADER(h, h.hlp)) = <<TRUE, PACK(OVERHEAD, 1)>>
  /\ Cell(h, h.hlp) = <<TRUE, PACK(OVERHEAD, 1)>>
  /\ Cell(h, <<0, h.brk - WSIZE>>) = <<TRUE, PACK(0, 1)>>

\* C7: after every public call returns, the prologue at heap_listp has header
\* and footer 8|1 and the last word of the arena is the epilogue header 0|1.
C7_Sentinels == Returned => Sentinels(Now)

\* ------------------------------------------------------------------ C8
Aligned(p) == p[2] % DSIZE = 0

\* C8: the arena base being 8-byte aligned, every non-null pointer returned by
\* mm_malloc or mm_realloc, and the payload pointer of every block on the walk
\* from heap_listp, is a multiple of 8.
C8_Alignment ==
  Returned =>
    /\ last.op \in {"malloc", "realloc"} => Aligned(last.ret)
    /\ \A bp \in Blocks(Now) : Aligned(bp)

\* A call has returned an aligned pointer from an arena it had to extend, and
\* the walk passes the prologue and at least two blocks.
C8_Witness ==
  /\ Returned
  /\ last.op \in {"malloc", "realloc"}
  /\ last.ret # NULL
  /\ last.extended
  /\ Len(Walk(Now).blocks) >= 3

\* ------------------------------------------------------------------ C9
\* The step is a call of mm_malloc that returned after mem_sbrk refused the
\* extension.
MallocRefused ==
  nops' = nops + 1 /\ last'.op = "malloc" /\ last'.refused /\ status' = "ok"

\* C9: when no free block fits and mem_sbrk refuses the extension, mm_malloc
\* returns NULL and leaves every arena word, the arena's end, heap_listp and
\* next_fit_pointer as they were, and the client's allocations with them.
C9_RefusedLeavesState ==
  [][MallocRefused =>
        /\ last'.ret = NULL
        /\ mem' = mem
        /\ mem_brk' = mem_brk
        /\ heap_listp' = heap_listp
        /\ next_fit_pointer' = next_fit_pointer
        /\ live' = live]_vars

\* mm_malloc has returned NULL after mem_sbrk refused, the client holding
\* allocations and the cursor being away from heap_listp.
C9_Witness ==
  /\ status = "ok"
  /\ last.op = "malloc"
  /\ last.refused
  /\ last.ret = NULL
  /\ LiveSlots # {}
  /\ next_fit_pointer # heap_listp

\* ------------------------------------------------------------------ C10
\* The walk w ends at the epilogue, the last word of the arena, and every
\* block on it has agreeing tags.
Tiled(h, w) ==
  /\ w.end = "epilogue"
  /\ HEADER(h, w.at) = <<0, h.brk - WSIZE>>
  /\ TagsAgree(h, Range(w.blocks))

\* The step is a call of mm_realloc that took the in-place grow branch.
GrowReturns == ReallocReturns /\ last'.path = "grow"

\* What C10 asks of the heap h after mm_realloc(p, n) grew p in place, c being
\* the size of the block of p plus that of the next block before the call.
GrowPost(h, p, n, c) ==
  /\ Tiled(h, Walk(h))
  /\ GET_ALLOC(h, HEADER(h, p)) = 1
  /\ IF ULe(DSIZE + OVERHEAD, Sub32(c, AdjustedSize(n)))
     THEN /\ GET_SIZE(h, HEADER(h, p)) = AdjustedSize(n)
          /\ IsFree(h, NEXT_BLOCK(h, p))
          /\ GET_SIZE(h, HEADER(h, NEXT_BLOCK(h, p))) = Sub32(c, AdjustedSize(n))
     ELSE GET_SIZE(h, HEADER(h, p)) = c

\* C10: an in-place grow returns p itself; afterwards the block of p is
\* allocated, of size asize when the remainder (combined - asize) is at least
\* 16 and then followed by a free block of that size, of the combined size
\* otherwise, and the blocks tile the arena up to the epilogue.
C10_InPlaceGrow ==
  [][GrowReturns =>
        /\ last'.ret = last'.ptr
        /\ GrowPost(Now', last'.ptr, last'.size,
                    Add32(GET_SIZE(Now, HEADER(Now, last'.ptr)),
                          GET_SIZE(Now, HEADER(Now, NEXT_BLOCK(Now, last'.ptr)))))]_vars

\* ---------------------------------------------------------------------------
\* C11

\* The blocks between the prologue and the epilogue.
Interior(h) == Blocks(h) \ {h.hlp}

\* The size of the block of bp is a multiple of 8 and at least 16.
LegalSize(h, bp) ==
  /\ GET_SIZE(h, HEADER(h, bp)) % DSIZE = 0
  /\ ULe(DSIZE + OVERHEAD, GET_SIZE(h, HEADER(h, bp)))

\* C11: after every public operation that returns, every block other than the
\* prologue and the epilogue has a size that is a multiple of 8 and at least
\* 16; the free block mm_realloc's shrink branch leaves behind is one of them.
C11_BlockSizes ==
  Returned => \A bp \in Interior(Now) : LegalSize(Now, bp)

\* ---------------------------------------------------------------------------
\* C12

\* The orders in which the allocations of the slots S can be freed.
Orders(S) ==
  {o \in [1 .. Cardinality(S) -> S] :
     \A a, b \in 1 .. Cardinality(S) : a # b => o[a] # o[b]}

\* The heap after mm_free of the allocations order[k], order[k+1], ...
RECURSIVE FreeAll(_, _, _)
FreeAll(h, order, k) ==
  IF k > Len(order) THEN h
  ELSE FreeAll(mm_free(h, live[order[k]].ptr), order, k + 1)

\* The list of h is the prologue, one free block from there to the epilogue
\* with header and footer (arena size - 16)|0, and the epilogue.
OneFreeBlock(h) ==
  /\ Sentinels(h)
  /\ Walk(h).blocks = <<h.hlp, WAdd(h.bits, h.hlp, ZExt(DSIZE))>>
  /\ Walk(h).end = "epilogue"
  /\ HEADER(h, Walk(h).at) = <<0, h.brk - WSIZE>>
  /\ Cell(h, <<0, mem_start_brk + DSIZE + WSIZE>>)
       = <<TRUE, PACK(h.brk - mem_start_brk - 2 * DSIZE, 0)>>
  /\ Cell(h, <<0, h.brk - DSIZE>>)
       = <<TRUE, PACK(h.brk - mem_start_brk - 2 * DSIZE, 0)>>

\* Every call so far was a mm_malloc that returned a block.
OnlyMallocs == Returned /\ nops > 0 /\ Cardinality(LiveSlots) = nops

\* C12 as stated: after mm_init and successful mm_malloc calls, freeing all
\* live blocks in any order leaves one free block between prologue and
\* epilogue, and every order leaves the same words in the arena.
C12_SameWords ==
  OnlyMallocs =>
    /\ \A o \in Orders(LiveSlots) : OneFreeBlock(FreeAll(Now, o, 1))
    /\ \A o1, o2 \in Orders(LiveSlots) :
         FreeAll(Now, o1, 1).mem = FreeAll(Now, o2, 1).mem

\* mm_free has returned and nothing is allocated.
AllFreed == Returned /\ last.op = "free" /\ LiveSlots = {}

\* C12, amended: once every block handed out by mm_malloc has been freed, in
\* whatever order, the list is the prologue, one free block spanning
\* everything up to the epilogue, and the epilogue; the four tag words and
\* the block's header and footer depend on the arena size alone.
C12_FreeAllMerges == AllFreed => OneFreeBlock(Now)

\* Three blocks were allocated, the heap was extended for one of them, and
\* the first of them was freed last.
C12_Witness ==
  /\ AllFreed
  /\ nops = MaxOpsMF
  /\ last.slot = 1
  /\ mem_brk = mem_start_brk + 4 * WSIZE + 2 * CHUNKSIZE

\* ---------------------------------------------------------------------------
\* C13

\* The step is a call of mm_malloc that asked mem_sbrk for more arena.
MallocAsksExtension ==
  nops' = nops + 1 /\ last'.op = "malloc" /\ (last'.extended \/ last'.refused)

\* The free blocks on the list of h of size at least asize.
Fits(h, asize) ==
  {bp \in Blocks(h) : IsFree(h, bp) /\ ULe(asize, GET_SIZE(h, HEADER(h, bp)))}

\* C13: in traces of mm_init, mm_malloc and mm_free, mm_malloc asks for an
\* extension only when no free block on the list has size >= asize: find_fit
\* returns NULL only after it has examined every block, wherever the cursor is.
C13_ExtendsOnlyOnMiss ==
  [][MallocAsksExtension => Fits(Now, AdjustedSize(last'.size)) = {}]_vars

\* mm_malloc asked for an extension while a free block lay before the cursor:
\* the search had to go round past the epilogue to see that it was too small.
C13_Witness ==
  /\ status = "ok"
  /\ last.op = "malloc"
  /\ last.extended \/ last.refused
  /\ \E bp \in Blocks(Now) : IsFree(Now, bp) /\ WLt(bp, next_fit_pointer)

\* ---------------------------------------------------------------------------
\* C14

\* The step is a call of mm_realloc that ended in exit(1).
ReallocExits == nops' = nops + 1 /\ last'.op = "realloc" /\ status' = "exited"

\* The block of p is allocated in h2 and its words, header to footer, are in
\* h2 what they were in h.
BlockUntouched(h, h2, p) ==
  /\ GET_ALLOC(h2, HEADER(h2, p)) = 1
  /\ \A a \in (DOMAIN h.mem) \cup (DOMAIN h2.mem) :
       WLe(HEADER(h, p), a) /\ WLe(a, FOOTER(h, p)) => Cell(h2, a) = Cell(h, a)

\* C14: mm_realloc(p, n), p live and n any size, 0 included, ends in exit(1)
\* only when mem_sbrk refused an extension during the call, and then the
\* block of p is still allocated, its header, footer and payload unmodified.
C14_ExitOnlyOnRefusal ==
  [][ReallocExits =>
        /\ last'.refused
        /\ BlockUntouched(Now, Now', last'.ptr)]_vars

\* ---------------------------------------------------------------------------
\* C15

\* No call is stuck in find_fit's loop: the search never comes round to a
\* block it has already examined without having met the cursor.
FindFitTerminates == status # "hung"

\* The walk of mm_checkheap comes to a header of size 0 inside the arena.
CheckheapTerminates == Returned => Walk(Now).end = "epilogue"

\* C15: every public call on a reachable heap terminates: find_fit's loop
\* returns a match or comes back to the cursor having visited each block at
\* most once, and the walk of mm_checkheap reaches the zero-size epilogue
\* header, after any sequence of mm_malloc, mm_free and mm_realloc calls.
C15_Terminates == FindFitTerminates /\ CheckheapTerminates

\* ---------------------------------------------------------------------------
\* C16

\* The sum, in 32 bits, of the header sizes of the blocks seq[k], seq[k+1], ...
RECURSIVE SumSizes(_, _, _)
SumSizes(h, seq, k) ==
  IF k > Len(seq) THEN 0
  ELSE Add32(GET_SIZE(h, HEADER(h, seq[k])), SumSizes(h, seq, k + 1))

\* The walk w of h from the prologue stays inside the arena and ends at the
\* header in its last 4 bytes; the sizes passed, the prologue's included, add
\* up to the arena size minus 8; each footer is followed by the next header.
Tiles(h, w) ==
  /\ w.end = "epilogue"
  /\ HEADER(h, w.at) = <<0, h.brk - WSIZE>>
  /\ SumSizes(h, w.blocks, 1) = h.brk - mem_start_brk - DSIZE
  /\ \A bp \in Range(w.blocks) :
       WAdd(h.bits, FOOTER(h, bp), ZExt(WSIZE)) = HEADER(h, NEXT_BLOCK(h, bp))

\* C16: after every public operation that returns, the blocks tile the arena:
\* the walk from the prologue by header sizes reaches, without leaving the
\* arena, the epilogue header in the arena's last 4 bytes, the sizes sum to
\* the arena size minus 8, and each footer is followed by the next header.
C16_Tiling == Returned => Tiles(Now, Walk(Now))

\* ---------------------------------------------------------------------------
\* C17

\* The blocks of the list seq in cyclic order from the block p on: p, the
\* blocks after it up to the epilogue, then those from heap_listp up to p.
\* Empty when p is not a block of the list.
CyclicFrom(seq, p) ==
  IF \E k \in 1 .. Len(seq) : seq[k] = p
  THEN SubSeq(seq, CHOOSE k \in 1 .. Len(seq) : seq[k] = p, Len(seq))
       \o SubSeq(seq, 1, (CHOOSE k \in 1 .. Len(seq) : seq[k] = p) - 1)
  ELSE <<>>

\* The first block of seq that is free in h with size at least asize, or NULL.
RECURSIVE FirstFree(_, _, _, _)
FirstFree(h, seq, asize, k) ==
  IF k > Len(seq) THEN NULL
  ELSE IF IsFree(h, seq[k]) /\ ULe(asize, GET_SIZE(h, HEADER(h, seq[k])))
  THEN seq[k]
  ELSE FirstFree(h, seq, asize, k + 1)

\* What next fit should find in h for asize.
NextFit(h, asize) == FirstFree(h, CyclicFrom(Walk(h).blocks, h.nfp), asize, 1)

\* The step is a call of mm_malloc that returned.
MallocReturns == nops' = nops + 1 /\ last'.op = "malloc" /\ status' = "ok"

\* C17: find_fit(asize) returns the first block, in cyclic list order from the
\* block next_fit_pointer references and wrapping from the epilogue to
\* heap_listp, that is free with size >= asize, and sets next_fit_pointer to
\* it; when it returns NULL, next_fit_pointer is unchanged.  Seen at the calls
\* of mm_malloc: no extension is asked for exactly when such a block exists,
\* and then it is the block returned and the new cursor.
C17_NextFitOrder ==
  [][MallocReturns =>
        IF last'.extended \/ last'.refused
        THEN /\ NextFit(Now, AdjustedSize(last'.size)) = NULL
             /\ next_fit_pointer' = next_fit_pointer
        ELSE /\ last'.ret = NextFit(Now, AdjustedSize(last'.size))
             /\ last'.ret # NULL
             /\ next_fit_pointer' = last'.ret]_vars

\* ---------------------------------------------------------------------------
\* C18

\* The step is a call of mm_malloc that returned a block.
MallocPlaces == MallocReturns /\ last'.ret # NULL

\* The free block that mm_malloc hands to place for asize, fit being what
\* find_fit returned: the block found, or the one extend_heap returns.
PlaceInput(fit, asize) ==
  IF fit.bp # NULL THEN fit
  ELSE extend_heap(fit.h, UDiv4(MAX(asize, CHUNKSIZE)))

\* What C18 asks of the heap h after asize was placed at bp into csize bytes.
SplitPost(h, bp, asize, csize) ==
  /\ GET_ALLOC(h, HEADER(h, bp)) = 1
  /\ ULe(Sub32(GET_SIZE(h, HEADER(h, bp)), asize), DSIZE)
  /\ IF ULe(DSIZE + OVERHEAD, Sub32(csize, asize))
     THEN /\ GET_SIZE(h, HEADER(h, bp)) = asize
          /\ IsFree(h, NEXT_BLOCK(h, bp))
          /\ GET_SIZE(h, HEADER(h, NEXT_BLOCK(h, bp))) = Sub32(csize, asize)
     ELSE GET_SIZE(h, HEADER(h, bp)) = csize

\* The block r.bp of size csize in r.h was placed into, giving h2 and bp.
SplitAfter(r, h2, bp, asize) ==
  /\ r.bp = bp
  /\ ULe(asize, GET_SIZE(r.h, HEADER(r.h, r.bp)))
  /\ SplitPost(h2, bp, asize, GET_SIZE(r.h, HEADER(r.h, r.bp)))

\* C18: when mm_malloc places a request of asize bytes into a free block of
\* csize >= asize bytes, the result is an allocated block of size asize
\* followed by a free block of size csize - asize if csize - asize >= 16,
\* and an allocated block of size csize otherwise; the block returned never
\* exceeds asize by more than 8 bytes.
C18_SplitPolicy ==
  [][MallocPlaces =>
        \E g \in GarbageWords :
          SplitAfter(PlaceInput(find_fit(Heap(g), AdjustedSize(last'.size)),
                                AdjustedSize(last'.size)),
                     Now', last'.ret, AdjustedSize(last'.size))]_vars

\* ---------------------------------------------------------------------------
\* C19

\* max(16, the smallest multiple of 8 that is >= size + 8), size being a
\* uint32_t, as a 64-bit number: nothing wraps.
ExactAdjusted(size) ==
  IF ULe(size, DSIZE) THEN ZExt(DSIZE + OVERHEAD)
  ELSE <<WAdd(64, ZExt(size), ZExt(OVERHEAD + DSIZE - 1))[1],
         SizeBits(WAdd(64, ZExt(size), ZExt(OVERHEAD + DSIZE - 1))[2])>>

\* max(x, 4096) for a 64-bit number x.
ExactExtension(x) == IF WLe(ZExt(CHUNKSIZE), x) THEN x ELSE ZExt(CHUNKSIZE)

\* mm_malloc has been called.
MallocCalled == last.op = "malloc"

\* C19: for every request size in 1 .. 2^32 - 1 the adjusted size that
\* mm_malloc computes equals max(16, smallest multiple of 8 >= size + 8), and
\* the extension it asks for on a miss equals max(asize, 4096): the uint32_t
\* addition and the int MAX neither wrap nor change sign.
C19_NoWrap ==
  MallocCalled =>
    /\ ZExt(AdjustedSize(last.size)) = ExactAdjusted(last.size)
    /\ ZExt(MAX(AdjustedSize(last.size), CHUNKSIZE))
         = ExactExtension(ExactAdjusted(last.size))

\* ---------------------------------------------------------------------------
\* C20

\* The step is a call of mm_malloc, mm_free or mm_realloc that returned.
CallReturns ==
  nops' = nops + 1 /\ status' = "ok" /\ last'.op \in {"malloc", "free", "realloc"}

\* The payload bytes the client holds at the allocation a = [ptr, req] of h:
\* as many as it asked for, and no more than the block has.
Held(h, a) ==
  IF ULe(a.req, Capacity(h, a.ptr)) THEN a.req ELSE Capacity(h, a.ptr)

\* The words of the client's payload at a are in h2 what they are in h.
PayloadKept(h, h2, a) ==
  \A w \in (DOMAIN h.mem) \cup (DOMAIN h2.mem) :
    WLe(a.ptr, w) /\ WLt(WSub(h.bits, w, a.ptr), ZExt(Held(h, a)))
      => Cell(h2, w) = Cell(h, w)

\* C20: no call of mm_malloc, mm_free or mm_realloc changes a payload byte of
\* a live allocation other than the one passed to it: the allocator writes
\* header and footer words, words inside free blocks and the payload of the
\* block it returns, nothing else.
C20_Frame ==
  [][CallReturns =>
        \A j \in LiveSlots :
          j # last'.slot => PayloadKept(Now, Now', live[j])]_vars

====
